---- MODULE Spec2Model ----
(***************************************************************************)
(* The Line series of the charting library (src/src/cartesian/Line.tsx)    *)
(* and its graphical-item registrar                                        *)
(* (src/src/state/SetCartesianGraphicalItem.ts).                           *)
(*                                                                         *)
(* Four specifications share the variables below:                         *)
(*   SpecDash  the pure stroke-dash functions (repeat, getStrokeDasharray) *)
(*   SpecReg   one SetCartesianGraphicalItem instance over its lifecycle   *)
(*   SpecProj  the point projector (useComposedLineData, points override)  *)
(*   Spec      one Line instance: Line.render, LineWrapper's hooks, the    *)
(*             Animate element it drives and its registration effects      *)
(*                                                                         *)
(* JavaScript values that may be null/undefined are sequences of length    *)
(* 0 (absent) or 1 (present).                                              *)
(***************************************************************************)
EXTENDS Integers, Sequences, FiniteSets, TLC

VARIABLES
  \* ---- SpecDash: inputs and result of getStrokeDasharray
  dashLength, dashTotal, dashLines, dashResult,
  \* ---- SpecProj: inputs and result of the point projection
  projData, projLayout, projXScale, projYScale, projPointsProp, projResult,
  \* ---- SpecReg: a stand-alone SetCartesianGraphicalItem
  regMounted, regProps,
  \* ---- shared store and registrar effect
  cartesianItems,   \* graphicalItemsSlice.cartesianItems
  effRec,           \* record captured by the last run of the useEffect closure
  dispatched,       \* actions dispatched by the last step, in order
  lastStep,         \* the last lifecycle step or callback taken
  \* ---- Spec: Line props and the store inputs it selects
  lineMounted, dirty, hide, dot, isAnimationActive,
  displayedData, layout, scaleK,
  \* ---- Spec: LineWrapper hook state
  isAnimationFinished, totalLength, pathRef, layoutDep,
  \* ---- Spec: the Animate element
  anim, t,
  \* ---- Spec: output of the last render pass, legend contribution
  view, legendPayload,
  \* ---- Spec: history
  measuredStored, geomChanged, animAtUnmount

dashVars == <<dashLength, dashTotal, dashLines, dashResult>>
regVars == <<regMounted, regProps>>
projVars == <<projData, projLayout, projXScale, projYScale, projPointsProp,
              projResult>>
storeVars == <<cartesianItems, effRec, dispatched, lastStep>>
propVars == <<hide, dot, isAnimationActive, displayedData, layout, scaleK>>
hookVars == <<isAnimationFinished, totalLength, pathRef, layoutDep>>
animVars == <<anim, t>>
histVars == <<measuredStored, geomChanged, animAtUnmount>>
lineVars == <<lineMounted, dirty, propVars, hookVars, animVars, view,
              legendPayload, histVars>>
vars == <<dashVars, projVars, regVars, storeVars, lineVars>>

\* ------------------------------------------------------------------ bounds
MaxDashLen == 4     \* lengths drawn for getStrokeDasharray: 0..MaxDashLen
MaxPattern == 3     \* longest dash pattern
MaxDash == 2        \* largest entry of a dash pattern
MaxPoints == 2      \* longest displayed dataset
MaxT == 2           \* animation frames: t = k / MaxT, k in 0..MaxT
MaxRecords == 3     \* longest dataset drawn for the point projector
MaxProjVal == 4     \* largest data value drawn for the point projector

\* ----------------------------------------------------------------- helpers
RECURSIVE SumSeq(_)
SumSeq(s) == IF s = <<>> THEN 0 ELSE Head(s) + SumSeq(Tail(s))

RECURSIVE SeqsUpTo(_, _)
SeqsUpTo(S, n) ==
  IF n = 0 THEN {<<>>}
  ELSE LET shorter == SeqsUpTo(S, n - 1)
       IN shorter \cup {Append(s, x) : s \in shorter, x \in S}

Nil == <<>>
Some(v) == <<v>>
isNil(o) == o = <<>>

\* ======================================================================
\* Dasharray calculator (Line.tsx 135-173)
\* ======================================================================

\* mutant of repeat: an odd pattern is not padded with a trailing 0
repeatNoPad(lines, count) ==
  LET RECURSIVE Rep(_)
      Rep(i) == IF i = 0 THEN <<>> ELSE Rep(i - 1) \o lines
  IN Rep(count)

repeat(lines, count) ==
  LET linesUnit == IF Len(lines) % 2 # 0 THEN Append(lines, 0) ELSE lines
      RECURSIVE Rep(_)
      Rep(i) == IF i = 0 THEN <<>> ELSE Rep(i - 1) \o linesUnit
  IN Rep(count)

\* `${n}px` for each segment, joined by sep
RECURSIVE JoinPx(_, _)
JoinPx(segs, sep) ==
  IF segs = <<>> THEN ""
  ELSE IF Len(segs) = 1 THEN ToString(Head(segs)) \o "px"
  ELSE ToString(Head(segs)) \o "px" \o sep \o JoinPx(Tail(segs), sep)

generateSimpleStrokeDasharray(totalLen, length) ==
  [raised |-> FALSE,
   segs |-> <<length, totalLen - length>>,
   value |-> ToString(length) \o "px " \o ToString(totalLen - length) \o "px"]

\* the for loop of lines 162-168: the pattern cut where the running sum first
\* exceeds remainLength; [] when no entry does
remainLinesOf(lines, remainLength) ==
  LET RECURSIVE Loop(_, _)
      Loop(i, sum) ==
        IF i > Len(lines) THEN <<>>
        ELSE IF sum + lines[i] > remainLength
             THEN Append(SubSeq(lines, 1, i - 1), remainLength - sum)
             ELSE Loop(i + 1, sum + lines[i])
  IN Loop(1, 0)

\* Array.prototype.reduce without an initial value throws a TypeError on []
getStrokeDasharray(length, totalLen, lines) ==
  IF lines = <<>>
  THEN [raised |-> TRUE, segs |-> <<>>, value |-> "TypeError"]
  ELSE
    LET lineLength == SumSeq(lines)
    IN IF lineLength = 0
       THEN generateSimpleStrokeDasharray(totalLen, length)
       ELSE
         LET count == length \div lineLength
             remainLength == length % lineLength
             restLength == totalLen - length
             remainLines == remainLinesOf(lines, remainLength)
             emptyLines == IF Len(remainLines) % 2 = 0
                           THEN <<0, restLength>> ELSE <<restLength>>
             all == repeat(lines, count) \o remainLines \o emptyLines
         IN [raised |-> FALSE, segs |-> all, value |-> JoinPx(all, ", ")]

NotCalled == [raised |-> FALSE, segs |-> <<>>, value |-> "not called"]

DashPatterns == SeqsUpTo(0..MaxDash, MaxPattern)

ApplyDash ==
  /\ dashResult = NotCalled
  /\ dashResult' = getStrokeDasharray(dashLength, dashTotal, dashLines)
  /\ UNCHANGED <<dashLength, dashTotal, dashLines>>

\* a further frame of the same curve: another drawn length, same pattern
NextDashInput ==
  /\ dashResult # NotCalled
  /\ \E l \in 0..MaxDashLen :
       /\ l # dashLength
       /\ dashLength' = l
  /\ dashResult' = NotCalled
  /\ UNCHANGED <<dashTotal, dashLines>>

\* ======================================================================
\* Graphical-item registrar (SetCartesianGraphicalItem.ts) and the store
\* ======================================================================

RegistrationRecord(data, dataKey, hideFlag, stackId, xAxisId, yAxisId, errorBars) ==
  [data |-> data, dataKey |-> dataKey, hide |-> hideFlag, stackId |-> stackId,
   xAxisId |-> xAxisId, yAxisId |-> yAxisId, errorBars |-> errorBars]

AddAct(rec) == [type |-> "addCartesianGraphicalItem", payload |-> rec]
RemoveAct(rec) == [type |-> "removeCartesianGraphicalItem", payload |-> rec]

\* graphicalItemsSlice reducers: the store keeps a list of records; a record
\* is identified by its field tuple
addCartesianGraphicalItem(items, payload) == Append(items, payload)

removeCartesianGraphicalItem(items, payload) ==
  LET hits == {i \in 1..Len(items) : items[i] = payload}
  IN IF hits = {} THEN items
     ELSE LET k == CHOOSE i \in hits : \A j \in hits : i <= j
          IN SubSeq(items, 1, k - 1) \o SubSeq(items, k + 1, Len(items))

reducer(items, action) ==
  IF action.type = "addCartesianGraphicalItem"
  THEN addCartesianGraphicalItem(items, action.payload)
  ELSE removeCartesianGraphicalItem(items, action.payload)

RECURSIVE dispatchAll(_, _)
dispatchAll(items, actions) ==
  IF actions = <<>> THEN items
  ELSE dispatchAll(reducer(items, Head(actions)), Tail(actions))

\* mutant of EffectDispatches: the effect returns no cleanup
EffectDispatchesNoCleanup(eff, next) ==
  IF eff = next \/ next = Nil THEN <<>> ELSE <<AddAct(next[1])>>

\* The useEffect of SetCartesianGraphicalItem over one commit.  eff is the
\* record captured by the effect that ran last (Nil before mount), next the
\* record rendered now (Nil when the component unmounts).  React runs the
\* previous cleanup, then the new effect, only when a dependency changed.
EffectDispatches(eff, next) ==
  IF eff = next THEN <<>>
  ELSE (IF eff # Nil THEN <<RemoveAct(eff[1])>> ELSE <<>>)
         \o (IF next # Nil THEN <<AddAct(next[1])>> ELSE <<>>)

\* records of other series never carry this series' data keys
OtherItem ==
  RegistrationRecord("otherData", "other", FALSE, "undefined", 0, 0, "noErrorBars")

OwnItems(items) == {i \in 1..Len(items) : items[i].dataKey # "other"}

\* ---- SpecReg: a stand-alone SetCartesianGraphicalItem instance
RegPropsSet ==
  [data : {"dataA", "dataB"}, dataKey : {"uv", "pv"}, hide : BOOLEAN,
   stackId : {"undefined", "a"}, xAxisId : {0, 1}, yAxisId : {0},
   errorBars : {"noErrorBars", "bars"}]

RegRecordOf(p) ==
  RegistrationRecord(p.data, p.dataKey, p.hide, p.stackId, p.xAxisId, p.yAxisId,
                     p.errorBars)

RegCommit(next, step) ==
  LET acts == EffectDispatches(effRec, next)
  IN /\ dispatched' = acts
     /\ cartesianItems' = dispatchAll(cartesianItems, acts)
     /\ effRec' = next
     /\ lastStep' = step

RegMount ==
  /\ ~regMounted
  /\ regMounted' = TRUE
  /\ UNCHANGED regProps
  /\ RegCommit(Some(RegRecordOf(regProps)), "RegMount")

RegRerender ==
  /\ regMounted
  /\ \E p \in RegPropsSet :
       /\ regProps' = p
       /\ RegCommit(Some(RegRecordOf(p)), "RegRerender")
  /\ UNCHANGED regMounted

RegUnmount ==
  /\ regMounted
  /\ regMounted' = FALSE
  /\ UNCHANGED regProps
  /\ RegCommit(Nil, "RegUnmount")

\* another series registers or withdraws its own record
OtherSeries ==
  /\ LET act == IF \E i \in 1..Len(cartesianItems) : cartesianItems[i] = OtherItem
                THEN RemoveAct(OtherItem) ELSE AddAct(OtherItem)
     IN /\ dispatched' = <<act>>
        /\ cartesianItems' = reducer(cartesianItems, act)
  /\ lastStep' = "OtherSeries"
  /\ UNCHANGED <<effRec, regMounted, regProps>>

\* ======================================================================
\* Point projector (Line.tsx 341-390)
\* ======================================================================

\* a displayed record is the value getValueByDataKey reads from it: absent
\* (null/undefined) or a number
DataValues == {Nil, Some(0), Some(1)}
Datasets == SeqsUpTo(DataValues, MaxPoints)
Layouts == {"horizontal", "vertical"}
\* the two value-axis scales the chart switches between, by their factor
Scales == {1, 2}

\* the number NaN, which no data value or coordinate of the model equals
NaN == -1

\* the value axis' scale: linear through the origin; NaN maps to NaN
scale(k, value) == IF value = NaN THEN NaN ELSE k * value

\* getCateCoordinateOfLine: the coordinate of the tick at index (0-based)
getCateCoordinateOfLine(index) == index

\* mutant of useComposedLineData: records without a value give no point
useComposedLineDataSkipAbsent(data, lay, k) ==
  LET kept == SelectSeq(data, LAMBDA v : ~isNil(v))
  IN [i \in 1..Len(kept) |->
        LET cate == Some(getCateCoordinateOfLine(i - 1))
            val == Some(scale(k, kept[i][1]))
        IN IF lay = "horizontal"
           THEN [x |-> cate, y |-> val, value |-> kept[i], payload |-> kept[i]]
           ELSE [x |-> val, y |-> cate, value |-> kept[i], payload |-> kept[i]]]

\* mutant of useComposedLineData: the value is tested for falsiness (!value)
\* instead of isNil(value), so 0 and NaN give a null coordinate too
useComposedLineDataFalsy(data, lay, k) ==
  [i \in 1..Len(data) |->
     LET value == data[i]
         cate == Some(getCateCoordinateOfLine(i - 1))
         val == IF isNil(value) \/ value[1] = 0 \/ value[1] = NaN THEN Nil
                ELSE Some(scale(k, value[1]))
     IN IF lay = "horizontal"
        THEN [x |-> cate, y |-> val, value |-> value, payload |-> data[i]]
        ELSE [x |-> val, y |-> cate, value |-> value, payload |-> data[i]]]

\* lines 369-385: data is displayedData, k the factor of the value axis' scale
useComposedLineData(data, lay, k) ==
  [i \in 1..Len(data) |->
     LET value == data[i]
         cate == Some(getCateCoordinateOfLine(i - 1))
         val == IF isNil(value) THEN Nil ELSE Some(scale(k, value[1]))
     IN IF lay = "horizontal"
        THEN [x |-> cate, y |-> val, value |-> value, payload |-> data[i]]
        ELSE [x |-> val, y |-> cate, value |-> value, payload |-> data[i]]]

\* the axis whose scale gives the value coordinate: matchingYAxis in
\* horizontal layout (line 372), matchingXAxis otherwise (line 380)
valueAxisScale(lay, xk, yk) == IF lay = "horizontal" THEN yk ELSE xk

\* line 405: a non-empty points prop overrides the computed points
resolvePoints(propsPoints, calculatedPoints) ==
  IF Len(propsPoints) > 0 THEN propsPoints ELSE calculatedPoints

\* Line.defaultProps.points, line 621
DefaultPointsProp == <<>>

\* ---- SpecProj: the projection applied to drawn inputs
ProjValues == {Nil, Some(NaN)} \cup {Some(v) : v \in 0..MaxProjVal}
ProjDatasets == SeqsUpTo(ProjValues, MaxRecords)

\* a points prop handed to the Line by its parent
PointsProps ==
  {DefaultPointsProp,
   <<[x |-> Some(0), y |-> Some(0), value |-> Some(0), payload |-> Some(0)]>>}

NotProjected == [done |-> FALSE, calculated |-> <<>>, points |-> <<>>]

Project ==
  /\ ~projResult.done
  /\ LET calculated ==
           useComposedLineData(projData, projLayout,
                               valueAxisScale(projLayout, projXScale, projYScale))
     IN projResult' = [done |-> TRUE, calculated |-> calculated,
                       points |-> resolvePoints(projPointsProp, calculated)]
  /\ UNCHANGED <<projData, projLayout, projXScale, projYScale, projPointsProp>>

\* the chart switches its layout: the points are to be computed again
ProjSetLayout ==
  /\ projResult.done
  /\ projLayout' = IF projLayout = "horizontal" THEN "vertical" ELSE "horizontal"
  /\ projResult' = NotProjected
  /\ UNCHANGED <<projData, projXScale, projYScale, projPointsProp>>

\* what SVGPathElement.getTotalLength() reports for the path drawn through
\* points: the sum of the segments between neighbours that both have
\* coordinates
Abs(n) == IF n < 0 THEN -n ELSE n

DomLength(points) ==
  LET Seg(i) ==
        LET p == points[i]
            q == points[i + 1]
        IN IF isNil(p.x) \/ isNil(p.y) \/ isNil(q.x) \/ isNil(q.y) THEN 0
           ELSE Abs(q.x[1] - p.x[1]) + Abs(q.y[1] - p.y[1])
      RECURSIVE Sum(_)
      Sum(i) == IF i >= Len(points) THEN 0 ELSE Seg(i) + Sum(i + 1)
  IN Sum(1)

\* ======================================================================
\* LineWrapper (Line.tsx 392-606) and Line.render (633-656)
\* ======================================================================

DomModes == {"ok", "missing", "throws"}

\* lines 409-420.  curveDom is pathRef.current: Nil or the length its
\* getTotalLength() reports; mode says whether that method exists and returns.
getTotalLength(curTotal, curveDom, mode) ==
  IF curTotal = 0
  THEN IF curveDom = Nil THEN [threw |-> FALSE, value |-> 0]
       ELSE IF mode = "missing" THEN [threw |-> FALSE, value |-> 0]
       ELSE IF mode = "throws" THEN [threw |-> FALSE, value |-> 0]   \* catch
       ELSE [threw |-> FALSE, value |-> curveDom[1]]
  ELSE [threw |-> FALSE, value |-> curTotal]

\* lines 95-107, with the defaultProps of lines 611-629
computeLegendPayloadFromAreaData(hideProp) ==
  [inactive |-> hideProp, dataKey |-> "uv", type |-> "line",
   color |-> "#3182bd", value |-> "uv"]

LineRecord(hideProp, errorBars) ==
  RegistrationRecord("undefined", "uv", hideProp, "undefined", 0, 0, errorBars)

\* mutant of RenderedRegistration: the hidden branch renders no registrar
RenderedRegistrationHiddenUnregistered(hideProp) ==
  IF hideProp THEN Nil ELSE Some(LineRecord(hideProp, "contextErrorBars"))

\* the registrar element of the render output: lines 639-648 when hidden,
\* CartesianGraphicalItemContext (lines 569-577) otherwise
RenderedRegistration(hideProp) ==
  IF hideProp THEN Some(LineRecord(hideProp, "noErrorBars"))
  ELSE Some(LineRecord(hideProp, "contextErrorBars"))

NoView ==
  [curve |-> "none", dots |-> FALSE, errorBars |-> FALSE, labels |-> FALSE,
   points |-> <<>>, length |-> 0, measure |-> "none", threw |-> FALSE]

\* the passive effects of one commit: registrar and legend
CommitEffects(next, legend, step) ==
  LET acts == EffectDispatches(effRec, next)
  IN /\ dispatched' = acts
     /\ cartesianItems' = dispatchAll(cartesianItems, acts)
     /\ effRec' = next
     /\ legendPayload' = legend
     /\ lastStep' = step

\* hooks of a LineWrapper that is not mounted: the next mount starts here
HooksReset ==
  /\ isAnimationFinished' = TRUE     \* useState(true), line 394
  /\ totalLength' = 0                \* useState(0), line 395
  /\ pathRef' = Nil
  /\ layoutDep' = Nil
  /\ anim' = "none"
  /\ t' = 0
  /\ measuredStored' = FALSE

\* Line.render with hide: lines 636-653
RenderHidden ==
  /\ HooksReset
  /\ view' = NoView
  /\ dirty' = FALSE
  /\ geomChanged' = FALSE
  /\ CommitEffects(RenderedRegistration(hide),
                   Some(computeLegendPayloadFromAreaData(hide)), "RenderPass")

\* one render pass of LineWrapper, its commit and its layout effect; mode is
\* how the browser answers a measurement in this pass
RenderWrapper(mode) ==
  LET points == resolvePoints(DefaultPointsProp,
                              useComposedLineData(displayedData, layout, scaleK))
      m == getTotalLength(totalLength, pathRef, mode)
      length == m.value
      hasSinglePoint == Len(points) = 1
      curve == IF hasSinglePoint THEN "none"
               ELSE IF isAnimationActive /\ Len(points) > 0 THEN "animated"
               ELSE "static"
      gated == isAnimationActive /\ ~isAnimationFinished
      runEffect == layoutDep # Some(length)
      newTotal == IF runEffect THEN length ELSE totalLength
  IN /\ view' = [curve |-> curve,
                 dots |-> (hasSinglePoint \/ dot) /\ ~gated,
                 errorBars |-> ~gated,
                 labels |-> ~isAnimationActive \/ isAnimationFinished,
                 points |-> points,
                 length |-> length,
                 measure |-> IF totalLength # 0 THEN "none"
                             ELSE IF pathRef = Nil THEN "absent" ELSE mode,
                 threw |-> m.threw]
     /\ pathRef' = IF curve = "none" THEN Nil ELSE Some(DomLength(points))
     /\ anim' = IF curve # "animated" THEN "none"
                ELSE IF anim = "none" THEN "notStarted" ELSE anim
     /\ t' = IF curve = "animated" /\ anim # "none" THEN t ELSE 0
     /\ totalLength' = newTotal
     /\ layoutDep' = Some(length)
     /\ measuredStored' = (measuredStored
                            \/ (runEffect /\ totalLength = 0 /\ pathRef # Nil
                                /\ mode = "ok"))
     /\ dirty' = (newTotal # totalLength)
     /\ geomChanged' = (geomChanged /\ isAnimationActive)
     /\ UNCHANGED isAnimationFinished
     /\ CommitEffects(RenderedRegistration(hide),
                      Some(computeLegendPayloadFromAreaData(hide)), "RenderPass")

RenderPass ==
  /\ lineMounted /\ dirty
  /\ IF hide THEN RenderHidden ELSE \E mode \in DomModes : RenderWrapper(mode)
  /\ UNCHANGED <<lineMounted, propVars, animAtUnmount>>

\* ---- the parent mounts the Line with the current props
Mount ==
  /\ ~lineMounted
  /\ lineMounted' = TRUE
  /\ dirty' = TRUE
  /\ lastStep' = "Mount"
  /\ dispatched' = <<>>
  /\ geomChanged' = FALSE
  /\ animAtUnmount' = "none"
  /\ UNCHANGED <<propVars, hookVars, animVars, view, legendPayload,
                 measuredStored, cartesianItems, effRec>>

\* mutant of Unmount: the Animate element's timers outlive the Line
UnmountKeepsAnimation ==
  /\ lineMounted /\ ~dirty
  /\ lineMounted' = FALSE
  /\ isAnimationFinished' = TRUE
  /\ totalLength' = 0
  /\ pathRef' = Nil
  /\ layoutDep' = Nil
  /\ measuredStored' = FALSE
  /\ UNCHANGED <<anim, t>>
  /\ view' = NoView
  /\ geomChanged' = FALSE
  /\ animAtUnmount' = anim
  /\ CommitEffects(Nil, Nil, "Unmount")
  /\ UNCHANGED <<dirty, propVars>>

\* the Line leaves the tree: every element under it unmounts (the Animate
\* of lines 241-252 with it) and every effect cleanup runs (the registrar's,
\* SetCartesianGraphicalItem.ts 21-23; the layout effect's, lines 431-433)
Unmount ==
  /\ lineMounted /\ ~dirty
  /\ lineMounted' = FALSE
  /\ HooksReset
  /\ view' = NoView
  /\ geomChanged' = FALSE
  /\ animAtUnmount' = anim
  /\ CommitEffects(Nil, Nil, "Unmount")
  /\ UNCHANGED <<dirty, propVars>>

\* ---- prop and store changes; each schedules a render pass
Event ==
  /\ lineMounted /\ ~dirty
  /\ dirty' = TRUE
  /\ lastStep' = "PropsChange"
  /\ dispatched' = <<>>
  /\ UNCHANGED <<lineMounted, hookVars, animVars, view, legendPayload,
                 measuredStored, animAtUnmount, cartesianItems, effRec>>

\* the drawn geometry changed under a visible, animated Line
GeometryChange(data2, lay2, k2) ==
  geomChanged' = (geomChanged
                   \/ (~hide /\ isAnimationActive
                       /\ useComposedLineData(data2, lay2, k2)
                            # useComposedLineData(displayedData, layout, scaleK)))

ToggleHide ==
  /\ Event
  /\ hide' = ~hide
  /\ UNCHANGED <<dot, isAnimationActive, displayedData, layout, scaleK, geomChanged>>

ToggleDot ==
  /\ Event
  /\ dot' = ~dot
  /\ UNCHANGED <<hide, isAnimationActive, displayedData, layout, scaleK, geomChanged>>

ToggleAnimationActive ==
  /\ Event
  /\ isAnimationActive' = ~isAnimationActive
  /\ geomChanged' = FALSE
  /\ UNCHANGED <<hide, dot, displayedData, layout, scaleK>>

AppendRecord ==
  /\ Len(displayedData) < MaxPoints
  /\ Event
  /\ \E v \in DataValues :
       /\ displayedData' = Append(displayedData, v)
       /\ GeometryChange(Append(displayedData, v), layout, scaleK)
  /\ UNCHANGED <<hide, dot, isAnimationActive, layout, scaleK>>

RemoveRecord ==
  /\ Len(displayedData) > 0
  /\ Event
  /\ displayedData' = SubSeq(displayedData, 1, Len(displayedData) - 1)
  /\ GeometryChange(SubSeq(displayedData, 1, Len(displayedData) - 1), layout, scaleK)
  /\ UNCHANGED <<hide, dot, isAnimationActive, layout, scaleK>>

SetLayout ==
  /\ Event
  /\ layout' = IF layout = "horizontal" THEN "vertical" ELSE "horizontal"
  /\ GeometryChange(displayedData, layout', scaleK)
  /\ UNCHANGED <<hide, dot, isAnimationActive, displayedData, scaleK>>

SetScale ==
  /\ Event
  /\ \E k \in Scales :
       /\ k # scaleK
       /\ scaleK' = k
       /\ GeometryChange(displayedData, layout, k)
  /\ UNCHANGED <<hide, dot, isAnimationActive, displayedData, layout>>

\* ---- the Animate element (lines 241-252): from t = 0 to t = 1, calling
\* onAnimationStart when it starts and onAnimationEnd when it is done
AnimCallback(step, finished) ==
  /\ ~dirty
  /\ isAnimationFinished' = finished
  /\ dirty' = (isAnimationFinished # finished)
  /\ lastStep' = step
  /\ dispatched' = <<>>
  /\ UNCHANGED <<lineMounted, propVars, totalLength, pathRef, layoutDep, view,
                 legendPayload, measuredStored, animAtUnmount, cartesianItems,
                 effRec>>

\* handleAnimationStart, lines 444-450
AnimationStart ==
  /\ anim = "notStarted"
  /\ anim' = "running"
  /\ t' = 0
  /\ geomChanged' = FALSE
  /\ AnimCallback("AnimationStart", FALSE)

\* the child function of lines 253-312 at the next t
AnimationFrame ==
  /\ anim = "running"
  /\ ~dirty
  /\ t < MaxT
  /\ t' = t + 1
  /\ UNCHANGED <<lineMounted, dirty, propVars, hookVars, anim, view,
                 legendPayload, histVars, storeVars>>

\* handleAnimationEnd, lines 436-442
AnimationEnd ==
  /\ anim = "running"
  /\ t = MaxT
  /\ anim' = "finished"
  /\ UNCHANGED <<t, geomChanged>>
  /\ AnimCallback("AnimationEnd", TRUE)

\* ======================================================================
\* Specifications
\* ======================================================================

ProjIdle ==
  /\ projData = <<>> /\ projLayout = "horizontal"
  /\ projXScale = 1 /\ projYScale = 1
  /\ projPointsProp = DefaultPointsProp /\ projResult = NotProjected

DashIdle ==
  /\ dashLength = 0 /\ dashTotal = 0 /\ dashLines = <<>> /\ dashResult = NotCalled

RegIdle ==
  /\ regMounted = FALSE
  /\ regProps = [data |-> "dataA", dataKey |-> "uv", hide |-> FALSE,
                 stackId |-> "undefined", xAxisId |-> 0, yAxisId |-> 0,
                 errorBars |-> "noErrorBars"]

StoreInit ==
  /\ cartesianItems = <<>>
  /\ effRec = Nil
  /\ dispatched = <<>>
  /\ lastStep = "Init"

LineUnmounted ==
  /\ lineMounted = FALSE
  /\ dirty = FALSE
  /\ isAnimationFinished = TRUE
  /\ totalLength = 0
  /\ pathRef = Nil
  /\ layoutDep = Nil
  /\ anim = "none"
  /\ t = 0
  /\ view = NoView
  /\ legendPayload = Nil
  /\ measuredStored = FALSE
  /\ geomChanged = FALSE
  /\ animAtUnmount = "none"

LineIdle ==
  /\ LineUnmounted
  /\ hide = FALSE /\ dot = TRUE /\ isAnimationActive = TRUE
  /\ displayedData = <<>> /\ layout = "horizontal" /\ scaleK = 1

\* ---- SpecDash
InitDash ==
  /\ dashLength \in 0..MaxDashLen
  /\ dashTotal \in 0..MaxDashLen
  /\ dashLines \in DashPatterns
  /\ dashResult = NotCalled
  /\ RegIdle /\ StoreInit /\ LineIdle /\ ProjIdle

NextDash ==
  \/ (ApplyDash /\ UNCHANGED <<projVars, regVars, storeVars, lineVars>>)
  \/ (NextDashInput /\ UNCHANGED <<projVars, regVars, storeVars, lineVars>>)

SpecDash == InitDash /\ [][NextDash]_vars

\* ---- SpecReg
InitReg ==
  /\ regMounted = FALSE
  /\ regProps \in RegPropsSet
  /\ StoreInit /\ DashIdle /\ LineIdle /\ ProjIdle

NextReg ==
  \/ (RegMount /\ UNCHANGED <<dashVars, projVars, lineVars>>)
  \/ (RegRerender /\ UNCHANGED <<dashVars, projVars, lineVars>>)
  \/ (RegUnmount /\ UNCHANGED <<dashVars, projVars, lineVars>>)
  \/ (OtherSeries /\ UNCHANGED <<dashVars, projVars, lineVars>>)

SpecReg == InitReg /\ [][NextReg]_vars

\* ---- SpecProj
InitProj ==
  /\ projData \in ProjDatasets
  /\ projLayout \in Layouts
  /\ projXScale \in Scales
  /\ projYScale \in Scales
  /\ projPointsProp \in PointsProps
  /\ projResult = NotProjected
  /\ DashIdle /\ RegIdle /\ StoreInit /\ LineIdle

NextProj ==
  \/ (Project /\ UNCHANGED <<dashVars, regVars, storeVars, lineVars>>)
  \/ (ProjSetLayout /\ UNCHANGED <<dashVars, regVars, storeVars, lineVars>>)

SpecProj == InitProj /\ [][NextProj]_vars

\* ---- Spec: the Line
Init ==
  /\ LineUnmounted
  /\ hide \in BOOLEAN
  /\ dot \in BOOLEAN
  /\ isAnimationActive \in BOOLEAN
  /\ displayedData \in Datasets
  /\ layout \in Layouts
  /\ scaleK \in Scales
  /\ StoreInit /\ DashIdle /\ RegIdle /\ ProjIdle

Next ==
  \/ (Mount /\ UNCHANGED <<dashVars, projVars, regVars>>)
  \/ (RenderPass /\ UNCHANGED <<dashVars, projVars, regVars>>)
  \/ (Unmount /\ UNCHANGED <<dashVars, projVars, regVars>>)
  \/ (ToggleHide /\ UNCHANGED <<dashVars, projVars, regVars>>)
  \/ (ToggleDot /\ UNCHANGED <<dashVars, projVars, regVars>>)
  \/ (ToggleAnimationActive /\ UNCHANGED <<dashVars, projVars, regVars>>)
  \/ (AppendRecord /\ UNCHANGED <<dashVars, projVars, regVars>>)
  \/ (RemoveRecord /\ UNCHANGED <<dashVars, projVars, regVars>>)
  \/ (SetLayout /\ UNCHANGED <<dashVars, projVars, regVars>>)
  \/ (SetScale /\ UNCHANGED <<dashVars, projVars, regVars>>)
  \/ (AnimationStart /\ UNCHANGED <<dashVars, projVars, regVars>>)
  \/ (AnimationFrame /\ UNCHANGED <<dashVars, projVars, regVars>>)
  \/ (AnimationEnd /\ UNCHANGED <<dashVars, projVars, regVars>>)

Spec == Init /\ [][Next]_vars

\* ======================================================================
\* Claims
\* ======================================================================

\* ---------------------------------------------------------------- C1
OwnRecords(items) == {items[i] : i \in OwnItems(items)}

C1_Store ==
  /\ Cardinality(OwnItems(cartesianItems)) <= 1
  /\ regMounted => OwnRecords(cartesianItems) = {RegRecordOf(regProps)}
  /\ ~regMounted => OwnItems(cartesianItems) = {}

C1_Step ==
  /\ lastStep' = "RegMount"
       => dispatched' = <<AddAct(RegRecordOf(regProps'))>>
  /\ (lastStep' = "RegRerender" /\ regProps' # regProps)
       => dispatched' = <<RemoveAct(RegRecordOf(regProps)),
                          AddAct(RegRecordOf(regProps'))>>
  /\ (lastStep' = "RegRerender" /\ regProps' = regProps)
       => dispatched' = <<>>
  /\ lastStep' = "RegUnmount"
       => dispatched' = <<RemoveAct(RegRecordOf(regProps))>>

AllPresent == \A i \in 1..Len(displayedData) : displayedData[i] # Nil

\* ---------------------------------------------------------------- C2
\* C2: in every render pass of a non-hidden Line, requested dots, error bars
\* and labels are rendered when animation is disabled or has finished, and
\* are absent in every render that happens while an active animation is
\* not started or running, the very first render included.  (Stated for
\* datasets without absent values.)
C2_GatedByAnimation ==
  (lineMounted /\ ~dirty /\ ~hide /\ lastStep = "RenderPass" /\ AllPresent) =>
    /\ (~isAnimationActive \/ anim = "finished")
         => (view.errorBars /\ view.labels /\ (dot => view.dots))
    /\ (isAnimationActive /\ anim \in {"notStarted", "running"})
         => (~view.dots /\ ~view.errorBars /\ ~view.labels)

\* ---------------------------------------------------------------- C3
\* C3: whenever a mounted, non-hidden Line has exactly one point, no curve is
\* rendered and a dot is rendered at that point, even with dot = false, after
\* any sequence of data changes and animation callbacks.  (Stated for
\* datasets without absent values.)
C3_SinglePointDot ==
  (lineMounted /\ ~dirty /\ ~hide /\ Len(view.points) = 1 /\ AllPresent) =>
    (view.curve = "none" /\ view.dots)

\* ---------------------------------------------------------------- C4
\* C4: whenever the displayed dataset, an axis scale or the layout changes
\* under a mounted Line with animation active, the animation state is reset:
\* the animation is back at not-started with t = 0 and totalLength is the
\* length of the newly rendered path (or still to be measured), never a
\* length cached from an earlier path.
C4_ResetOnChange ==
  (lineMounted /\ ~dirty /\ ~hide /\ isAnimationActive /\ geomChanged
     /\ view.curve = "animated") =>
    /\ anim = "notStarted" /\ t = 0
    /\ totalLength = 0 \/ Some(totalLength) = pathRef

\* ---------------------------------------------------------------- C5
AnimationCallbacks == {"AnimationStart", "AnimationEnd"}

C7_NoGeometryIsStatic ==
  (lineMounted /\ ~dirty /\ ~hide /\ AllPresent) =>
    /\ ~view.threw
    /\ view.measure \in {"absent", "missing", "throws"} => view.length = 0
    /\ totalLength = 0 => view.curve # "animated"

\* ---------------------------------------------------------------- C8
\* C8: the animation never enters the running state (start callback fired,
\* t advancing) before a measurement of the existing path element has been
\* stored in totalLength.  (Stated for datasets without absent values.)
C8_MeasureBeforeRunning ==
  (anim = "running" /\ AllPresent) => measuredStored

\* ---------------------------------------------------------------- C9
SimplePattern(length, totalLen) ==
  ToString(length) \o "px " \o ToString(totalLen - length) \o "px"

\* C9: getStrokeDasharray(length, totalLength, lines) returns the simple
\* pattern "<length>px <totalLength-length>px" whenever lines is empty or
\* sums to zero, and does not raise.
C9_SimplePattern ==
  (dashResult # NotCalled /\ SumSeq(dashLines) = 0) =>
    /\ ~dashResult.raised
    /\ dashResult.value = SimplePattern(dashLength, dashTotal)

\* ---------------------------------------------------------------- C10
\* C10: for every non-empty pattern of non-negative numbers with sum > 0 and
\* every 0 <= length <= totalLength, the emitted segments sum to totalLength,
\* their number is even, and the last one is a gap of totalLength - length
\* that starts where length has been drawn.
C10_SegmentsSum ==
  (dashResult # NotCalled /\ SumSeq(dashLines) > 0 /\ dashLength <= dashTotal) =>
    LET segs == dashResult.segs
    IN /\ ~dashResult.raised
       /\ dashResult.value = JoinPx(segs, ", ")
       /\ SumSeq(segs) = dashTotal
       /\ Len(segs) % 2 = 0
       /\ segs[Len(segs)] = dashTotal - dashLength
       /\ SumSeq(SubSeq(segs, 1, Len(segs) - 1)) = dashLength

\* an odd pattern holding a zero, repeated at least once and cut inside
C10_Witness ==
  /\ dashResult # NotCalled
  /\ Len(dashLines) = 3
  /\ \E i \in 1..Len(dashLines) : dashLines[i] = 0
  /\ SumSeq(dashLines) > 0
  /\ dashLength > SumSeq(dashLines)
  /\ dashLength % SumSeq(dashLines) # 0
  /\ dashLength < dashTotal

\* ---- C11 ----------------------------------------------------------------
\* C11 as stated: for every displayed dataset and every layout, the point
\* sequence used by the Line has the length and the order of the displayed
\* dataset (points[i].payload is displayed record i), however many values are
\* absent. A non-empty points prop replaces the computed points (line 405),
\* so this does not hold for every Line.
C11_PointsFollowDataAlways ==
  projResult.done =>
    /\ Len(projResult.points) = Len(projData)
    /\ \A i \in 1..Len(projData) : projResult.points[i].payload = projData[i]

\* C11, amended: when the points prop is empty (its default), the point
\* sequence used by the Line has the length and the order of the displayed
\* dataset: points[i].payload is displayed record i, however many values are
\* absent.
C11_PointsFollowData ==
  (projResult.done /\ projPointsProp = DefaultPointsProp) =>
    /\ Len(projResult.points) = Len(projData)
    /\ \A i \in 1..Len(projData) : projResult.points[i].payload = projData[i]

\* three records, two of them without a value, projected without an override
C11_Witness ==
  /\ projResult.done
  /\ projPointsProp = DefaultPointsProp
  /\ projData = <<Nil, Some(3), Nil>>
  /\ Len(projResult.points) = 3
  /\ projResult.points[2].payload = Some(3)

\* ---- C12 ----------------------------------------------------------------
\* C12: for every record, the value-axis coordinate of its computed point is
\* null exactly when the record's value is null or undefined (zero and NaN are
\* scaled, not nulled) and otherwise is the value axis' scale of the value; the
\* category-axis coordinate is always resolved. In horizontal layout the value
\* coordinate is y (scaled by the Y axis) and the category coordinate is x; in
\* vertical layout the value coordinate is x (scaled by the X axis) and the
\* category coordinate is y.
C12_Coordinates ==
  projResult.done =>
    /\ Len(projResult.calculated) = Len(projData)
    /\ \A i \in 1..Len(projData) :
         LET p == projResult.calculated[i]
             v == projData[i]
             horizontal == projLayout = "horizontal"
             valueCoord == IF horizontal THEN p.y ELSE p.x
             cateCoord == IF horizontal THEN p.x ELSE p.y
             k == IF horizontal THEN projYScale ELSE projXScale
         IN /\ (valueCoord = Nil) <=> (v = Nil)
            /\ v # Nil => valueCoord = Some(scale(k, v[1]))
            /\ v = Some(0) => valueCoord = Some(0)
            /\ v = Some(NaN) => valueCoord = Some(NaN)
            /\ cateCoord # Nil
            /\ cateCoord = Some(getCateCoordinateOfLine(i - 1))

\* the records with values 2, null, 4 in horizontal layout: the second point
\* has a null y and a resolved x, the others are scaled by the Y axis
C12_Witness ==
  /\ projResult.done
  /\ projLayout = "horizontal"
  /\ projXScale = 1 /\ projYScale = 2
  /\ projData = <<Some(2), Nil, Some(4)>>
  /\ projResult.calculated[2].y = Nil
  /\ projResult.calculated[2].x = Some(getCateCoordinateOfLine(1))
  /\ projResult.calculated[1].y = Some(4)
  /\ projResult.calculated[3].y = Some(8)

====
